---- MODULE Spec2Model ----
(***************************************************************************)
(* Model of package fhfa (github.com/invertedv/fhfa): the HPIseries /      *)
(* HPIdata store, its quarter arithmetic, lookup, append, copy and Best.   *)
(*                                                                         *)
(* Go slices are modelled as they are built: a slice is a header (array    *)
(* id, length) over an array of the heap whose length is the capacity, so  *)
(* that two slices over one array can be told from two slices over two.    *)
(* float32 index values are opaque here and are small integers.            *)
(***************************************************************************)
EXTENDS Integers, Sequences, FiniteSets, TLC

VARIABLES
  h,      \* the HPIseries under test (the pointee of h *HPIseries)
  c,      \* a second HPIseries object: the result of h.Copy()
  heap,   \* the arrays behind the slices of h and c
  made,   \* how h was constructed ("New", "Load") and the pair that was last then
  hdata,  \* the HPIdata under test (the pointee of hd *HPIdata)
  arg,    \* the arguments of the last call
  ret     \* the outcome of the last call

vars == <<h, c, heap, made, hdata, arg, ret>>

(***************************************************************************)
(* Bounds of the model.                                                    *)
(***************************************************************************)
MaxLen == 2      \* longest dates/indx slice handed to NewHPIseries or Load
MaxBlock == 2    \* longest dts/indx slice handed to Append
MaxDates == 3    \* Append is not called on a series that would grow past this
MaxVal == 2      \* index values are 1..MaxVal
MaxSlack == 1    \* spare capacity a slice may have: a caller's, or after a growing append
MaxCopyBlock == 1   \* copy machine: longest dts/indx slice handed to Append
MaxCopyDates == 2   \* copy machine: Append is not called on an object that would grow past this
MaxSearchLen == 3   \* lookup machine: longest series searched
MaxHpis == 2        \* Best machine: longest keys and hpis slices
MaxDataDates == 3   \* dataset machine: HPIdata.Append is not called when a series would grow past this
MaxQtrSeq == 3      \* quarter machine: longest free sequence of codes handed to QtrsOK
MaxChain == 4       \* quarter machine: longest sequence built by repeated NextQtr
MaxPieces == 2      \* headers are made of up to this many pieces (phrases and single words)
MaxLevelRows == 2   \* level machine: most rows of a loaded sheet
MaxGridRows == 3    \* parse machine: most rows of a sheet

\* Quarter codes (CCYYQ) the calls draw from: they cross a year boundary.
Codes == {20194, 20201, 20202}
\* Codes of the lookup machine's series: 20202 is a gap.
IndexCodes == {20194, 20201, 20203, 20204}
\* Dates asked of Index: every integer around the codes, stored or not.
LookupDts == 20193..20205
Vals == 1..MaxVal

SeqsUpTo(S, n) == UNION {[1..k -> S] : k \in 0..n}

Min(a, b) == IF a < b THEN a ELSE b

(***************************************************************************)
(* Outcomes of a call: a value, an error value, or a panic.                *)
(***************************************************************************)
Ok(v) == [kind |-> "ok", val |-> v, msg |-> ""]
Err(m) == [kind |-> "err", val |-> 0, msg |-> m]
Panic(m) == [kind |-> "panic", val |-> 0, msg |-> m]

(***************************************************************************)
(* Quarter arithmetic.                                                     *)
(***************************************************************************)
\* NextQtr advances dt (CCYYQ) by 1 quarter; it panics on an illegal date.
NextQtr(dt) ==
  LET yr == dt \div 10
      qtr == dt - 10 * yr
  IN IF yr < 1960 \/ qtr < 1 \/ qtr > 4
       THEN Panic("illegal date")
       ELSE IF qtr + 1 = 5 THEN Ok(10 * (yr + 1) + 1) ELSE Ok(10 * yr + qtr + 1)

\* Mutant of QtrDiff: no swap, the difference is signed.
QtrDiffSigned(dt0, dt1) ==
  LET yr0 == dt0 \div 10
      yr1 == dt1 \div 10
      qtr0 == dt0 - 10 * yr0
      qtr1 == dt1 - 10 * yr1
  IN 4 * (yr1 - yr0) + qtr1 - qtr0

\* Mutant of QtrDiff: the codes themselves are subtracted.
QtrDiffOfCodes(dt0, dt1) ==
  LET lo == IF dt1 < dt0 THEN dt1 ELSE dt0
      hi == IF dt1 < dt0 THEN dt0 ELSE dt1
  IN hi - lo

\* QtrDiff swaps its operands when dt1 < dt0, then subtracts.
QtrDiff(dt0, dt1) ==
  LET lo == IF dt1 < dt0 THEN dt1 ELSE dt0
      hi == IF dt1 < dt0 THEN dt0 ELSE dt1
      yr0 == lo \div 10
      yr1 == hi \div 10
      qtr0 == lo - 10 * yr0
      qtr1 == hi - 10 * yr1
  IN 4 * (yr1 - yr0) + qtr1 - qtr0

\* QtrsOK: every adjacent pair has QtrDiff 1.
QtrsOK(dt) == \A j \in 2..Len(dt) : QtrDiff(dt[j - 1], dt[j]) = 1

(***************************************************************************)
(* Calendar dates. A time.Time is its year, month and day (UTC midnight).  *)
(***************************************************************************)
\* time.Date(y, m, d, 0, 0, 0, 0, time.UTC) for a month in 1..12 and a day of
\* that month: nothing is normalised.
TimeDate(y, m, d) == [year |-> y, month |-> m, day |-> d]

\* Mutant of ToYrQtr: the month is not shifted before the division.
ToYrQtrUnshifted(dt) ==
  LET yr == dt.year
      mon == dt.month
      qtr == 1 + mon \div 3
  IN 10 * yr + qtr

\* ToYrQtr converts a date to a CCYYQ int.
ToYrQtr(dt) ==
  LET yr == dt.year
      mon == dt.month
      qtr == 1 + (mon - 1) \div 3
  IN 10 * yr + qtr

\* Mutant of ToTime: the quarter's last month instead of its first.
ToTimeLastMonth(dt) ==
  LET yr == dt \div 10
      qtr == dt - 10 * yr
  IN IF yr < 1960 \/ yr > 2060 \/ qtr < 1 \/ qtr > 4
       THEN [kind |-> "err", val |-> TimeDate(1900, 1, 1), msg |-> "illegal date conversion"]
       ELSE Ok(TimeDate(yr, 3 * qtr, 1))

\* ToTime converts a CCYYQ int to the first day of the quarter; outside
\* 1960..2060 and quarters 1..4 it returns 1900-01-01 and an error.
ToTime(dt) ==
  LET yr == dt \div 10
      qtr == dt - 10 * yr
  IN IF yr < 1960 \/ yr > 2060 \/ qtr < 1 \/ qtr > 4
       THEN [kind |-> "err", val |-> TimeDate(1900, 1, 1), msg |-> "illegal date conversion"]
       ELSE Ok(TimeDate(yr, 1 + 3 * (qtr - 1), 1))

(***************************************************************************)
(* Slices and the heap.                                                    *)
(***************************************************************************)
ArrIds == 1..6
NilSlice == [a |-> 0, n |-> 0]
EmptyHeap == [i \in ArrIds |-> <<>>]

Cap(hp, sl) == IF sl.a = 0 THEN 0 ELSE Len(hp[sl.a])
\* The elements a slice shows: the first n of its array.
Elems(hp, sl) == IF sl.a = 0 THEN <<>> ELSE SubSeq(hp[sl.a], 1, sl.n)
Zeros(n) == [i \in 1..n |-> 0]
\* An array id no slice uses (a free id holds the empty array).
FreeId(hp) == CHOOSE i \in ArrIds : hp[i] = <<>> /\ \A j \in ArrIds : hp[j] = <<>> => i <= j

\* A slice argument as the caller holds it: an array of its own holding xs,
\* with whatever spare capacity the caller's slice has.
MakeSlice(hp, xs, slack) ==
  IF Len(xs) = 0
    THEN [sl |-> NilSlice, heap |-> hp]
    ELSE LET id == FreeId(hp)
         IN [sl |-> [a |-> id, n |-> Len(xs)], heap |-> [hp EXCEPT ![id] = xs \o Zeros(slack)]]

\* append(sl, xs...): in place when the capacity allows, else into a new array
\* of the needed length plus slack.
GoAppend(hp, sl, xs, slack) ==
  IF Len(xs) = 0
    THEN [sl |-> sl, heap |-> hp]
    ELSE IF sl.n + Len(xs) <= Cap(hp, sl)
      THEN [sl |-> [a |-> sl.a, n |-> sl.n + Len(xs)],
            heap |-> [hp EXCEPT ![sl.a] =
                       [i \in 1..Len(@) |->
                          IF i > sl.n /\ i <= sl.n + Len(xs) THEN xs[i - sl.n] ELSE @[i]]]]
      ELSE LET id == FreeId(hp)
           IN [sl |-> [a |-> id, n |-> sl.n + Len(xs)],
               heap |-> [hp EXCEPT ![id] = Elems(hp, sl) \o xs \o Zeros(slack)]]

\* copy(dst, src): overwrites the first min(len(dst), len(src)) elements of dst.
GoCopy(hp, dst, src) ==
  LET k == Min(dst.n, src.n)
  IN IF k = 0
       THEN hp
       ELSE [hp EXCEPT ![dst.a] = [i \in 1..Len(@) |-> IF i <= k THEN hp[src.a][i] ELSE @[i]]]

\* Arrays no live slice refers to are dropped.
Collect(hp, live) == [i \in ArrIds |-> IF i \in live THEN hp[i] ELSE <<>>]

(***************************************************************************)
(* HPIseries.                                                              *)
(***************************************************************************)
NoSeries ==
  [live |-> FALSE, geoName |-> "", geoCode |-> "", dates |-> NilSlice, indx |-> NilSlice,
   lastDt |-> 0, lastIndx |-> 0]

\* The dates and values a series shows.
Dates(hp, s) == Elems(hp, s.dates)
Indx(hp, s) == Elems(hp, s.indx)

\* NewHPIseries on the values of its arguments: what it answers.
NewHPIseriesCheck(dates, indx) ==
  IF Len(dates) = 0 \/ Len(dates) # Len(indx)
    THEN Err("dates and indx don't agree")
    ELSE IF ~QtrsOK(dates)
      THEN Err("dates don't increment by quarter")
      ELSE Ok(0)

\* NewHPIseries: the struct holds the caller's two slices and the anchor.
NewHPIseries(hp, geoName, geoCode, dates, indx, slack) ==
  LET d == MakeSlice(hp, dates, slack)
      x == MakeSlice(d.heap, indx, slack)
      r == NewHPIseriesCheck(dates, indx)
  IN IF r.kind # "ok"
       THEN [r |-> r, s |-> NoSeries, heap |-> hp]
       ELSE [r |-> r,
             s |-> [live |-> TRUE, geoName |-> geoName, geoCode |-> geoCode,
                    dates |-> d.sl, indx |-> x.sl,
                    lastDt |-> dates[Len(dates)], lastIndx |-> indx[Len(indx)]],
             heap |-> x.heap]

\* The rows of one geography block as Load stores them (no validation): each
\* row is appended and becomes the anchor.
RECURSIVE LoadRows(_, _, _, _)
LoadRows(hp, s, rows, slack) ==
  IF rows = <<>>
    THEN [s |-> s, heap |-> hp]
    ELSE LET row == Head(rows)
             d == GoAppend(hp, s.dates, <<row.yrQtr>>, slack)
             x == GoAppend(d.heap, s.indx, <<row.indx>>, slack)
             s1 == [s EXCEPT !.dates = d.sl, !.indx = x.sl,
                             !.lastDt = row.yrQtr, !.lastIndx = row.indx]
             keep == (ArrIds \ {s.dates.a, s.indx.a}) \cup {d.sl.a, x.sl.a}
         IN LoadRows(Collect(x.heap, keep), s1, Tail(rows), slack)

\* Load, for the rows of one geography key.
LoadSeries(hp, geo, rows, slack) ==
  LoadRows(hp, [NoSeries EXCEPT !.live = TRUE, !.geoName = geo, !.geoCode = geo], rows, slack)

\* Mutant of SeriesAppend: a successful Append also moves the anchor to the
\* last appended pair.
SeriesAppendMovesAnchor(hp, s, dts, indx, slackD, slackI) ==
  IF Len(dts) = 0
    THEN [r |-> Panic("index out of range"), s |-> s, heap |-> hp]
    ELSE IF QtrDiff(dts[1], s.lastDt) # 1 \/ ~QtrsOK(dts)
      THEN [r |-> Err("dates don't increment by quarter"), s |-> s, heap |-> hp]
      ELSE LET d == GoAppend(hp, s.dates, dts, slackD)
               x == GoAppend(d.heap, s.indx, indx, slackI)
           IN [r |-> Ok(0),
               s |-> [s EXCEPT !.dates = d.sl, !.indx = x.sl,
                               !.lastDt = dts[Len(dts)],
                               !.lastIndx = IF Len(indx) > 0 THEN indx[Len(indx)] ELSE @],
               heap |-> x.heap]

\* HPIseries.Append: dts[0] is checked against the anchor lastDt, dts against
\* QtrsOK; the length of indx is not looked at.
SeriesAppend(hp, s, dts, indx, slackD, slackI) ==
  IF Len(dts) = 0
    THEN [r |-> Panic("index out of range"), s |-> s, heap |-> hp]
    ELSE IF QtrDiff(dts[1], s.lastDt) # 1 \/ ~QtrsOK(dts)
      THEN [r |-> Err("dates don't increment by quarter"), s |-> s, heap |-> hp]
      ELSE LET d == GoAppend(hp, s.dates, dts, slackD)
               x == GoAppend(d.heap, s.indx, indx, slackI)
           IN [r |-> Ok(0), s |-> [s EXCEPT !.dates = d.sl, !.indx = x.sl], heap |-> x.heap]

\* Mutant of Data: the series' own slices are returned.
DataShared(hp, s) == [dts |-> s.dates, hpi |-> s.indx, heap |-> hp]

\* HPIseries.Data: dts and hpi are the nil named results; copy into a nil
\* slice copies nothing.
Data(hp, s) ==
  LET dts == NilSlice
      hpi == NilSlice
      hp1 == GoCopy(hp, dts, s.dates)
      hp2 == GoCopy(hp1, hpi, s.indx)
  IN [dts |-> dts, hpi |-> hpi, heap |-> hp2]

\* HPIseries.Copy: a new struct over what Data returns.
Copy(hp, s) ==
  LET d == Data(hp, s)
  IN [s |-> [live |-> TRUE, geoName |-> s.geoName, geoCode |-> s.geoCode,
             dates |-> d.dts, indx |-> d.hpi,
             lastDt |-> s.lastDt, lastIndx |-> s.lastIndx],
      heap |-> d.heap]

\* sort.SearchInts(a, x): the binary search of sort.Search with f(i) = a[i] >= x,
\* on 0-based i, j.
RECURSIVE Search(_, _, _, _)
Search(a, x, i, j) ==
  IF i < j
    THEN LET m == (i + j) \div 2
         IN IF ~(a[m + 1] >= x) THEN Search(a, x, m + 1, j) ELSE Search(a, x, i, m)
    ELSE i

SearchInts(a, x) == Search(a, x, 0, Len(a))

\* Mutant of DateIndex: no step back when the date found is not dt.
DateIndexNoDecrement(dates, dt) ==
  IF Len(dates) = 0
    THEN Panic("index out of range")
    ELSE IF dt > dates[Len(dates)]
      THEN Err("date too large")
      ELSE IF dt < dates[1]
        THEN Err("date too small")
        ELSE Ok(SearchInts(dates, dt))

\* HPIseries.DateIndex on the dates a series shows; the result is 0-based.
DateIndex(dates, dt) ==
  IF Len(dates) = 0
    THEN Panic("index out of range")
    ELSE IF dt > dates[Len(dates)]
      THEN Err("date too large")
      ELSE IF dt < dates[1]
        THEN Err("date too small")
        ELSE LET indx == SearchInts(dates, dt)
             IN IF indx >= Len(dates)
                  THEN Panic("index out of range")
                  ELSE IF dates[indx + 1] # dt THEN Ok(indx - 1) ELSE Ok(indx)

\* HPIseries.Index on the dates and values a series shows.
Index(dates, indx, dt) ==
  LET r == DateIndex(dates, dt)
  IN IF r.kind # "ok"
       THEN r
       ELSE IF r.val < 0 \/ r.val >= Len(indx)
         THEN Panic("index out of range")
         ELSE Ok(indx[r.val + 1])

\* HPIseries.Last: the anchor.
Last(s) == [dt |-> s.lastDt, indx |-> s.lastIndx]

(***************************************************************************)
(* Header text. A string is the sequence of its words; a word is its       *)
(* lower-case spelling and whether it is written with capitals.            *)
(***************************************************************************)
\* The words ws written in lower case, and written with capitals.
Lower(ws) == [i \in 1..Len(ws) |-> [w |-> ws[i], up |-> FALSE]]
Upper(ws) == [i \in 1..Len(ws) |-> [w |-> ws[i], up |-> TRUE]]

\* strings.ToLower
ToLower(str) == [i \in 1..Len(str) |-> [w |-> str[i].w, up |-> FALSE]]

\* strings.Contains(str, substr)
Contains(str, substr) ==
  \E off \in 0..(Len(str) - Len(substr)) : \A k \in 1..Len(substr) : str[off + k] = substr[k]

ThreeDigitZip == Lower(<<"three-digit", "zip">>)
MetropolitanAreas == Lower(<<"metropolitan", "areas">>)
NotInMetropolitan == Lower(<<"not", "in", "metropolitan", "statistical", "areas">>)
StatesAndDC == Lower(<<"states", "and", "the", "district", "of", "columbia">>)
CensusDivisions == Lower(<<"census", "divisions">>)
PuertoRico == Lower(<<"puerto", "rico">>)
ManufacturedHomes == Lower(<<"manufactured", "homes">>)

\* Mutant of geoLevelOf: the header is matched as it is written.
geoLevelOfCaseSensitive(header) ==
  IF Contains(header, ThreeDigitZip) THEN "zip3"
  ELSE IF Contains(header, MetropolitanAreas) THEN "metro"
  ELSE IF Contains(header, NotInMetropolitan) THEN "nonmetro"
  ELSE IF Contains(header, StatesAndDC) THEN "state"
  ELSE IF Contains(header, CensusDivisions) THEN "us"
  ELSE IF Contains(header, PuertoRico) THEN "pr"
  ELSE IF Contains(header, ManufacturedHomes) THEN "mh"
  ELSE "unknown"

\* geoLevel(header) returns the geographic level of the data (e.g. metro, us, ..).
geoLevelOf(header) ==
  LET lc == ToLower(header)
  IN IF Contains(lc, ThreeDigitZip) THEN "zip3"
     ELSE IF Contains(lc, MetropolitanAreas) THEN "metro"
     ELSE IF Contains(lc, NotInMetropolitan) THEN "nonmetro"
     ELSE IF Contains(lc, StatesAndDC) THEN "state"
     ELSE IF Contains(lc, CensusDivisions) THEN "us"
     ELSE IF Contains(lc, PuertoRico) THEN "pr"
     ELSE IF Contains(lc, ManufacturedHomes) THEN "mh"
     ELSE "unknown"

(***************************************************************************)
(* HPIdata: a geoLevel and a map from geo key to series. For the read-only *)
(* operations a series is what it shows: its dates, values and anchor.     *)
(***************************************************************************)
GeoLevels == {"zip3", "metro", "nonmetro", "state", "us", "pr", "mh"}

SeriesVal(hp, s) ==
  [geoName |-> s.geoName, geoCode |-> s.geoCode, dates |-> Dates(hp, s), indx |-> Indx(hp, s),
   lastDt |-> s.lastDt, lastIndx |-> s.lastIndx]

\* NewHPIdata: an error for a geoLevel outside the seven.
NewHPIdata(geoLevel, series) ==
  IF geoLevel \notin GeoLevels
    THEN [r |-> Err("invalid geo level"), hd |-> [geoLevel |-> "", series |-> <<>>]]
    ELSE [r |-> Ok(0), hd |-> [geoLevel |-> geoLevel, series |-> series]]

\* HPIdata.Geo: whether the key is in the map.
HPIdataGeo(hd, geo) == IF geo \in DOMAIN hd.series THEN Ok(0) ELSE Err("geo not found")

\* HPIdata.Index: Geo, then the series' Index.
HPIdataIndex(hd, geo, dt) ==
  IF HPIdataGeo(hd, geo).kind # "ok"
    THEN HPIdataGeo(hd, geo)
    ELSE Index(hd.series[geo].dates, hd.series[geo].indx, dt)

\* Mutant of HPIdataLast: the error of Geo is dropped.
HPIdataLastSwallowsError(hd, geo) ==
  IF HPIdataGeo(hd, geo).kind # "ok"
    THEN [r |-> Ok(0), dt |-> 0]
    ELSE [r |-> Ok(hd.series[geo].lastIndx), dt |-> hd.series[geo].lastDt]

\* HPIdata.Last: Geo, then the series' Last.
HPIdataLast(hd, geo) ==
  IF HPIdataGeo(hd, geo).kind # "ok"
    THEN [r |-> HPIdataGeo(hd, geo), dt |-> 0]
    ELSE [r |-> Ok(hd.series[geo].lastIndx), dt |-> hd.series[geo].lastDt]

\* HPIdata.Geo as the pointer it returns: the keyed series, or nil.
NilSeries == [geoName |-> "", geoCode |-> "", dates |-> <<>>, indx |-> <<>>, lastDt |-> 0, lastIndx |-> 0]
HPIdataGeoSeries(hd, geo) ==
  [r |-> HPIdataGeo(hd, geo), s |-> IF geo \in DOMAIN hd.series THEN hd.series[geo] ELSE NilSeries]

\* hpiE / hpiS on float32: the quotient as a fraction in lowest terms (the
\* rounding of the quotient is not modelled); x/0 is an infinity or NaN.
RECURSIVE Gcd(_, _)
Gcd(a, b) == IF b = 0 THEN a ELSE Gcd(b, a % b)
Float32Div(a, b) ==
  IF b = 0
    THEN [num |-> IF a = 0 THEN 0 ELSE 1, den |-> 0]
    ELSE [num |-> a \div Gcd(a, b), den |-> b \div Gcd(a, b)]

\* Mutant of SeriesChange: the end date is looked up first.
SeriesChangeEndFirst(s, dtStart, dtEnd) ==
  LET hpiS == Index(s.dates, s.indx, dtStart)
      hpiE == Index(s.dates, s.indx, dtEnd)
  IN IF hpiE.kind # "ok"
       THEN hpiE
       ELSE IF hpiS.kind # "ok" THEN hpiS ELSE Ok(Float32Div(hpiE.val, hpiS.val))

\* HPIseries.Change: Index(dtStart), then Index(dtEnd), then the ratio.
SeriesChange(s, dtStart, dtEnd) ==
  LET hpiS == Index(s.dates, s.indx, dtStart)
      hpiE == Index(s.dates, s.indx, dtEnd)
  IN IF hpiS.kind # "ok"
       THEN hpiS
       ELSE IF hpiE.kind # "ok" THEN hpiE ELSE Ok(Float32Div(hpiE.val, hpiS.val))

\* HPIseries.ChangeTime: the same on ToYrQtr of the two dates.
SeriesChangeTime(s, dateStart, dateEnd) ==
  LET hpiS == Index(s.dates, s.indx, ToYrQtr(dateStart))
      hpiE == Index(s.dates, s.indx, ToYrQtr(dateEnd))
  IN IF hpiS.kind # "ok"
       THEN hpiS
       ELSE IF hpiE.kind # "ok" THEN hpiE ELSE Ok(Float32Div(hpiE.val, hpiS.val))

\* HPIdata.Change: Geo, then the series' Change.
HPIdataChange(hd, geo, dtStart, dtEnd) ==
  IF HPIdataGeo(hd, geo).kind # "ok"
    THEN HPIdataGeo(hd, geo)
    ELSE SeriesChange(hd.series[geo], dtStart, dtEnd)

\* HPIdata.ChangeTime: Geo, then the series' ChangeTime.
HPIdataChangeTime(hd, geo, dtStart, dtEnd) ==
  IF HPIdataGeo(hd, geo).kind # "ok"
    THEN HPIdataGeo(hd, geo)
    ELSE SeriesChangeTime(hd.series[geo], dtStart, dtEnd)

\* Mutant of BestFrom: the first failed lookup ends the search.
RECURSIVE BestFromStopsAtFailure(_, _, _, _)
BestFromStopsAtFailure(dt, keys, hpis, j) ==
  IF j > Len(hpis)
    THEN [r |-> Err("geo/dt not found in Best"), geoLevel |-> "", lookups |-> j - 1]
    ELSE LET r == HPIdataIndex(hpis[j], keys[j], dt)
         IN IF r.kind = "ok"
              THEN [r |-> r, geoLevel |-> hpis[j].geoLevel, lookups |-> j]
              ELSE [r |-> Err("geo/dt not found in Best"), geoLevel |-> "", lookups |-> j]

\* The loop of Best from pair j on: the first lookup without an error answers.
\* lookups counts the calls of HPIdata.Index the loop has made.
RECURSIVE BestFrom(_, _, _, _)
BestFrom(dt, keys, hpis, j) ==
  IF j > Len(hpis)
    THEN [r |-> Err("geo/dt not found in Best"), geoLevel |-> "", lookups |-> j - 1]
    ELSE LET r == HPIdataIndex(hpis[j], keys[j], dt)
         IN IF r.kind = "ok"
              THEN [r |-> r, geoLevel |-> hpis[j].geoLevel, lookups |-> j]
              ELSE IF r.kind = "panic"
                THEN [r |-> r, geoLevel |-> "", lookups |-> j]
                ELSE BestFrom(dt, keys, hpis, j + 1)

\* Mutant of Best: the argument check forgets the empty case.
BestNoEmptyCheck(dt, keys, hpis) ==
  IF Len(keys) # Len(hpis)
    THEN [r |-> Err("invalid series"), geoLevel |-> "", lookups |-> 0]
    ELSE BestFrom(dt, keys, hpis, 1)

\* Best: the argument check, then the loop.
Best(dt, keys, hpis) ==
  IF Len(keys) # Len(hpis) \/ Len(hpis) = 0
    THEN [r |-> Err("invalid series"), geoLevel |-> "", lookups |-> 0]
    ELSE BestFrom(dt, keys, hpis, 1)

(***************************************************************************)
(* The series machine: a client constructs h, then appends to it, copies   *)
(* it, appends to the copy and looks dates up, in any order.               *)
(***************************************************************************)
NoArg == [t |-> "", dts |-> <<>>, indx |-> <<>>, dt |-> 0, geo |-> ""]
NotMade == [how |-> "", dt |-> 0, indx |-> 0]
\* No dataset: the machines about a single series hold none.
NoData == [geoLevel |-> "", series |-> <<>>]
Ret(op, r, dt) == [op |-> op, kind |-> r.kind, val |-> r.val, msg |-> r.msg, dt |-> dt]
Rows == [yrQtr : Codes, indx : Vals]
Obj(t) == IF t = "h" THEN h ELSE c
Live(s1, s2) == {s1.dates.a, s1.indx.a, s2.dates.a, s2.indx.a} \ {0}
Running == ret.kind # "panic"
GeoArgs == {"NY", "ZZ"}
\* The dataset that holds object t under its geoCode.
DataOf(t) == NewHPIdata("state", [k \in {Obj(t).geoCode} |-> SeriesVal(heap, Obj(t))]).hd

Init ==
  /\ h = NoSeries
  /\ c = NoSeries
  /\ heap = EmptyHeap
  /\ made = NotMade
  /\ hdata = NoData
  /\ arg = NoArg
  /\ ret = Ret("", Ok(0), 0)

\* A run starts with the one call that constructs h (when it fails there is
\* no series, and the run ends).
DoNewHPIseries(dates, indx, slack) ==
  /\ ret.op = ""
  /\ ~h.live
  /\ LET n == NewHPIseries(heap, "NY", "NY", dates, indx, slack)
     IN /\ h' = n.s
        /\ heap' = n.heap
        /\ made' = IF n.r.kind = "ok"
                     THEN [how |-> "New", dt |-> dates[Len(dates)], indx |-> indx[Len(indx)]]
                     ELSE made
        /\ ret' = Ret("NewHPIseries", n.r, 0)
  /\ arg' = [NoArg EXCEPT !.dts = dates, !.indx = indx]
  /\ UNCHANGED <<c, hdata>>

DoLoad(rows, slack) ==
  /\ ret.op = ""
  /\ ~h.live
  /\ LET n == LoadSeries(heap, "NY", rows, slack)
     IN /\ h' = n.s
        /\ heap' = n.heap
  /\ made' = [how |-> "Load", dt |-> rows[Len(rows)].yrQtr, indx |-> rows[Len(rows)].indx]
  /\ ret' = Ret("Load", Ok(0), 0)
  /\ arg' = [NoArg EXCEPT !.dts = [i \in 1..Len(rows) |-> rows[i].yrQtr],
                          !.indx = [i \in 1..Len(rows) |-> rows[i].indx]]
  /\ UNCHANGED <<c, hdata>>

\* rec: whether the call's slices are kept in arg for the claims that read them.
DoAppend(t, dts, indx, slack, rec, cap) ==
  /\ Running
  /\ Obj(t).live
  /\ Len(Dates(heap, Obj(t))) + Len(dts) <= cap
  /\ Len(Indx(heap, Obj(t))) + Len(indx) <= cap
  /\ LET n == SeriesAppend(heap, Obj(t), dts, indx, slack, slack)
     IN /\ h' = IF t = "h" THEN n.s ELSE h
        /\ c' = IF t = "c" THEN n.s ELSE c
        /\ heap' = Collect(n.heap, Live(h', c'))
        /\ ret' = Ret("Append", n.r, 0)
  /\ arg' = IF rec THEN [NoArg EXCEPT !.t = t, !.dts = dts, !.indx = indx]
                   ELSE [NoArg EXCEPT !.t = t]
  /\ UNCHANGED <<made, hdata>>

DoCopy ==
  /\ Running
  /\ h.live
  /\ ~c.live
  /\ LET n == Copy(heap, h)
     IN /\ c' = n.s
        /\ heap' = n.heap
  /\ ret' = Ret("Copy", Ok(0), 0)
  /\ arg' = [NoArg EXCEPT !.t = "h"]
  /\ UNCHANGED <<h, made, hdata>>

DoIndex(t, dt) ==
  /\ Running
  /\ Obj(t).live
  /\ ret' = Ret("Index", Index(Dates(heap, Obj(t)), Indx(heap, Obj(t)), dt), 0)
  /\ arg' = [NoArg EXCEPT !.t = t, !.dt = dt]
  /\ UNCHANGED <<h, c, heap, made, hdata>>

DoLast(t) ==
  /\ Running
  /\ Obj(t).live
  /\ ret' = Ret("Last", Ok(Last(Obj(t)).indx), Last(Obj(t)).dt)
  /\ arg' = [NoArg EXCEPT !.t = t]
  /\ UNCHANGED <<h, c, heap, made, hdata>>

DoDataLast(t, geo) ==
  /\ Running
  /\ Obj(t).live
  /\ ret' = Ret("HPIdata.Last", HPIdataLast(DataOf(t), geo).r, HPIdataLast(DataOf(t), geo).dt)
  /\ arg' = [NoArg EXCEPT !.t = t, !.geo = geo]
  /\ UNCHANGED <<h, c, heap, made, hdata>>

DoDataIndex(t, geo, dt) ==
  /\ Running
  /\ Obj(t).live
  /\ ret' = Ret("HPIdata.Index", HPIdataIndex(DataOf(t), geo, dt), 0)
  /\ arg' = [NoArg EXCEPT !.t = t, !.geo = geo, !.dt = dt]
  /\ UNCHANGED <<h, c, heap, made, hdata>>

Next ==
  \/ \E dates \in SeqsUpTo(Codes, MaxLen), indx \in SeqsUpTo(Vals, MaxLen),
        slack \in 0..MaxSlack :
       DoNewHPIseries(dates, indx, slack)
  \/ \E rows \in SeqsUpTo(Rows, MaxLen) \ {<<>>}, slack \in 0..MaxSlack : DoLoad(rows, slack)
  \/ \E dts \in SeqsUpTo(Codes, MaxBlock), indx \in SeqsUpTo(Vals, MaxBlock),
        slack \in 0..MaxSlack :
       DoAppend("h", dts, indx, slack, TRUE, MaxDates)
  \/ \E dt \in Codes : DoIndex("h", dt)
  \/ DoLast("h")
  \/ \E geo \in GeoArgs : DoDataLast("h", geo)

Spec == Init /\ [][Next]_vars

(***************************************************************************)
(* The copy machine: h is constructed and appended to, copied into c, and  *)
(* both objects are then appended to and read in any order.                *)
(***************************************************************************)
NextCopy ==
  \/ \E dates \in SeqsUpTo(Codes, MaxLen), indx \in SeqsUpTo(Vals, MaxLen),
        slack \in 0..MaxSlack :
       DoNewHPIseries(dates, indx, slack)
  \/ \E t \in {"h", "c"}, dts \in SeqsUpTo(Codes, MaxCopyBlock),
        indx \in SeqsUpTo(Vals, MaxCopyBlock), slack \in 0..MaxSlack :
       DoAppend(t, dts, indx, slack, FALSE, MaxCopyDates)
  \/ DoCopy
  \/ \E t \in {"h", "c"}, geo \in GeoArgs : DoDataIndex(t, geo, Obj(t).lastDt)

SpecCopy == Init /\ [][NextCopy]_vars

(***************************************************************************)
(* Claims about the series machine.                                        *)
(***************************************************************************)
HD == Dates(heap, h)
HX == Indx(heap, h)
\* The dates h held before the last call, which was an Append on h.
PreDates == IF ret.kind = "ok" THEN SubSeq(HD, 1, Len(HD) - Len(arg.dts)) ELSE HD
AppendOnH == ret.op = "Append" /\ arg.t = "h" /\ made.how = "New"
\* dts starts at the quarter after the last of ds.
StartsAfter(dts, ds) ==
  Len(dts) > 0 /\ Len(ds) > 0 /\ NextQtr(ds[Len(ds)]) = Ok(dts[1])

\* C2: in a series made by NewHPIseries and any Appends, every stored date is
\* the quarter after the one before it.
C2_DatesStepByQuarter ==
  (h.live /\ made.how = "New") =>
    \A i \in 1..(Len(HD) - 1) : NextQtr(HD[i]) = Ok(HD[i + 1])

\* C3: Append succeeds exactly when dts[0] is the quarter after the last date
\* stored at the time of the call and dts passes QtrsOK.
C3_AppendChecksLastStored ==
  AppendOnH => (ret.kind = "ok" <=> (StartsAfter(arg.dts, PreDates) /\ QtrsOK(arg.dts)))

\* C4: NewHPIseries refuses empty or unequal slices, and a series made by it
\* and any Appends holds one value per date.
C4_OneValuePerDate ==
  /\ (ret.op = "NewHPIseries" /\ (Len(arg.dts) = 0 \/ Len(arg.dts) # Len(arg.indx)))
       => ret.kind = "err"
  /\ (h.live /\ made.how = "New") => Len(HD) = Len(HX)

\* C5: an Append whose first date does not follow the last stored date, or
\* whose dates fail QtrsOK, returns an error and leaves dates, values and
\* anchor as they were.
C5_BadAppendRejected ==
  [][(/\ ret'.op = "Append" /\ arg'.t = "h" /\ made.how = "New"
      /\ Len(arg'.dts) > 0
      /\ (~StartsAfter(arg'.dts, HD) \/ ~QtrsOK(arg'.dts)))
       => (ret'.kind = "err" /\ SeriesVal(heap', h') = SeriesVal(heap, h))]_vars

\* C6: after a successful Append(dts, indx), Index(dts[k]) is indx[k] for
\* every position k of the block.
C6_AppendedIsFound ==
  (AppendOnH /\ ret.kind = "ok" /\ Len(arg.indx) = Len(arg.dts) /\ Len(PreDates) = Len(HX) - Len(arg.indx)) =>
    \A k \in 1..Len(arg.dts) :
      k <= Len(arg.indx) /\ Index(HD, HX, arg.dts[k]) = Ok(arg.indx[k])

\* C7: Last, and HPIdata.Last for the series' key, return the pair that was
\* last when the series was constructed, whatever has been appended since.
C7_LastIsAnchor ==
  /\ h.live => (Last(h) = [dt |-> made.dt, indx |-> made.indx]
                /\ HPIdataLast(DataOf("h"), h.geoCode) = [r |-> Ok(made.indx), dt |-> made.dt])
  /\ (ret.op = "Last" /\ arg.t = "h") => (ret.dt = made.dt /\ ret.val = made.indx)
  /\ (ret.op = "HPIdata.Last" /\ arg.t = "h" /\ ret.kind = "ok")
       => (ret.dt = made.dt /\ ret.val = made.indx)

\* C7 witness: Last is called on a series grown to its bound whose last stored
\* pair is not the anchor.
C7_Witness ==
  /\ ret.op = "Last" /\ arg.t = "h"
  /\ Len(HD) = MaxDates /\ Len(HX) = MaxDates
  /\ HD[Len(HD)] # made.dt /\ HX[Len(HX)] # made.indx

\* C21: on a series made by NewHPIseries and any Appends, no call of Append,
\* Index, Last or HPIdata.Last panics, whatever its arguments: each returns a
\* result or an error value.
C21_NoPanic ==
  (h.live /\ made.how = "New" /\ ret.op \in {"Append", "Index", "Last", "HPIdata.Last"})
    => ret.kind # "panic"

\* C29: in a series made by a successful NewHPIseries and any successful
\* Appends, every stored pair is retrievable: Index(dates[i]) succeeds and
\* returns indx[i], for every position i.
C29_EveryPairRetrievable ==
  (h.live /\ made.how = "New") =>
    \A i \in 1..Len(HD) : i <= Len(HX) /\ Index(HD, HX, HD[i]) = Ok(HX[i])

(***************************************************************************)
(* Claims about the copy machine.                                          *)
(***************************************************************************)
\* C8: right after c := h.Copy(), c holds the dates, values and anchor of h and
\* answers Index as h does, by series and through the datasets holding them.
C8_CopyEquivalent ==
  ret.op = "Copy" =>
    /\ SeriesVal(heap, c) = SeriesVal(heap, h)
    /\ \A dt \in LookupDts :
         /\ Index(Dates(heap, c), Indx(heap, c), dt) = Index(HD, HX, dt)
         /\ \A k \in GeoArgs :
              HPIdataIndex(DataOf("c"), k, dt) = HPIdataIndex(DataOf("h"), k, dt)

\* C9: the copy shares no array with the original; an Append on c leaves what
\* h shows unchanged, and an Append on h leaves what c shows unchanged.
NoSharedArray ==
  c.live => ({c.dates.a, c.indx.a} \cap {h.dates.a, h.indx.a}) \subseteq {0}

C9_CopyIndependent ==
  /\ []NoSharedArray
  /\ [][/\ (c.live /\ ret'.op = "Append" /\ arg'.t = "c")
             => (SeriesVal(heap', h') = SeriesVal(heap, h) /\ h' = h)
        /\ (c.live /\ ret'.op = "Append" /\ arg'.t = "h")
             => (SeriesVal(heap', c') = SeriesVal(heap, c) /\ c' = c)]_vars

\* C9 witness: after the copy both objects have been appended to, h last.
C9_Witness ==
  /\ c.live /\ Len(Dates(heap, c)) > 0 /\ Len(Indx(heap, c)) > 0
  /\ Len(HD) = MaxCopyDates
  /\ ret.op = "Append" /\ arg.t = "h" /\ ret.kind = "ok"

(***************************************************************************)
(* The lookup machine: Index on every series Load can build from up to     *)
(* MaxSearchLen rows (Load checks no order), at every date of LookupDts.   *)
(***************************************************************************)
IndexRows == [yrQtr : IndexCodes, indx : Vals]

InitIndex ==
  /\ \E rows \in SeqsUpTo(IndexRows, MaxSearchLen) \ {<<>>} :
       LET n == LoadSeries(EmptyHeap, "NY", rows, 0)
       IN /\ h = n.s
          /\ heap = n.heap
          /\ made = [how |-> "Load", dt |-> rows[Len(rows)].yrQtr, indx |-> rows[Len(rows)].indx]
  /\ c = NoSeries
  /\ hdata = NoData
  /\ arg = NoArg
  /\ ret = Ret("", Ok(0), 0)

NextIndex == \E dt \in LookupDts : DoIndex("h", dt)

SpecIndex == InitIndex /\ [][NextIndex]_vars

Ascending(ds) == \A i \in 1..(Len(ds) - 1) : ds[i] < ds[i + 1]
\* The largest position whose date is at most dt.
LastAtMost(ds, dt) == CHOOSE i \in 1..Len(ds) : ds[i] <= dt /\ \A j \in 1..Len(ds) : ds[j] <= dt => j <= i

\* C1: on a non-empty series with strictly ascending dates, Index(dt) is an
\* error when dt is before the first or after the last date, and otherwise
\* the value at the largest i with dates[i] <= dt (DateIndex gives that i).
C1_IndexStepFunction ==
  (ret.op = "Index" /\ Len(HD) > 0 /\ Len(HX) = Len(HD) /\ Ascending(HD)) =>
    IF arg.dt < HD[1] \/ arg.dt > HD[Len(HD)]
      THEN ret.kind = "err"
      ELSE /\ DateIndex(HD, arg.dt) = Ok(LastAtMost(HD, arg.dt) - 1)
           /\ ret = Ret("Index", Ok(HX[LastAtMost(HD, arg.dt)]), 0)

\* C1 witness: a date in range but not stored is looked up in a longest
\* ascending series and answered from an earlier date.
C1_Witness ==
  /\ ret.op = "Index" /\ ret.kind = "ok"
  /\ Len(HD) = MaxSearchLen /\ Len(HX) = Len(HD) /\ Ascending(HD)
  /\ \A i \in 1..Len(HD) : HD[i] # arg.dt
  /\ arg.dt > HD[2]

(***************************************************************************)
(* The Best machine: one call of Best on datasets made by NewHPIdata from  *)
(* series made by NewHPIseries.                                            *)
(***************************************************************************)
BestKeys == {"A", "B"}
BestDts == {20194, 20201, 20203}
BestLevels == {"metro", "nonmetro"}

NewSeriesVal(dates, indx) ==
  LET n == NewHPIseries(EmptyHeap, "", "", dates, indx, 0)
  IN SeriesVal(n.heap, n.s)

BestSeries == {NewSeriesVal(<<20194>>, <<1>>), NewSeriesVal(<<20201, 20202>>, <<2, 1>>)}
BestMaps == UNION {[K -> BestSeries] : K \in SUBSET BestKeys}
BestData == {NewHPIdata(l, m).hd : l \in BestLevels, m \in BestMaps}

RetBest(op, b) ==
  [op |-> op, kind |-> b.r.kind, val |-> b.r.val, msg |-> b.r.msg, geoLevel |-> b.geoLevel,
   lookups |-> b.lookups]

InitBest ==
  /\ h = NoSeries
  /\ c = NoSeries
  /\ heap = EmptyHeap
  /\ made = NotMade
  /\ hdata = NoData
  /\ \E dt \in BestDts, keys \in SeqsUpTo(BestKeys, MaxHpis), hpis \in SeqsUpTo(BestData, MaxHpis) :
       arg = [dt |-> dt, keys |-> keys, hpis |-> hpis]
  /\ ret = RetBest("", [r |-> Ok(0), geoLevel |-> "", lookups |-> 0])

DoBest ==
  /\ ret.op = ""
  /\ ret' = RetBest("Best", Best(arg.dt, arg.keys, arg.hpis))
  /\ UNCHANGED <<h, c, heap, made, hdata, arg>>

NextBest == DoBest

SpecBest == InitBest /\ [][NextBest]_vars

\* The pairs whose lookup succeeds.
Hits == {i \in 1..Len(arg.hpis) : HPIdataIndex(arg.hpis[i], arg.keys[i], arg.dt).kind = "ok"}
FirstHit == CHOOSE i \in Hits : \A j \in Hits : i <= j

\* C10: Best answers with the value and geoLevel of the first pair whose
\* lookup succeeds, and with the no-match error exactly when none does.
C10_BestFirstHit ==
  (ret.op = "Best" /\ Len(arg.keys) = Len(arg.hpis) /\ Len(arg.hpis) > 0) =>
    /\ (ret.kind = "err" /\ ret.msg = "geo/dt not found in Best") <=> Hits = {}
    /\ Hits # {} =>
         /\ ret.kind = "ok"
         /\ ret.val = HPIdataIndex(arg.hpis[FirstHit], arg.keys[FirstHit], arg.dt).val
         /\ ret.geoLevel = arg.hpis[FirstHit].geoLevel

\* C10 witness: the first pair fails, the key being in that dataset but dt
\* outside its series, and the last pair answers.
C10_Witness ==
  /\ ret.op = "Best" /\ ret.kind = "ok"
  /\ Len(arg.keys) = MaxHpis /\ Len(arg.hpis) = MaxHpis
  /\ FirstHit = MaxHpis
  /\ arg.keys[1] \in DOMAIN arg.hpis[1].series
  /\ arg.hpis[1].geoLevel # arg.hpis[MaxHpis].geoLevel

\* C11: Best returns the invalid-arguments error, having made no lookup,
\* exactly when len(keys) != len(hpis) or len(hpis) == 0.
C11_BestInvalidArgs ==
  ret.op = "Best" =>
    /\ (ret.kind = "err" /\ ret.msg = "invalid series")
         <=> (Len(arg.keys) # Len(arg.hpis) \/ Len(arg.hpis) = 0)
    /\ (Len(arg.keys) # Len(arg.hpis) \/ Len(arg.hpis) = 0) => ret.lookups = 0
    /\ (Len(arg.keys) = Len(arg.hpis) /\ Len(arg.hpis) > 0) => ret.lookups > 0

\* C11 witness: the lengths differ and Best refuses although the first pair's
\* lookup would have succeeded.
C11_Witness ==
  /\ ret.op = "Best" /\ ret.kind = "err" /\ ret.msg = "invalid series" /\ ret.lookups = 0
  /\ Len(arg.keys) > 0 /\ Len(arg.hpis) > 0 /\ Len(arg.keys) # Len(arg.hpis)
  /\ HPIdataIndex(arg.hpis[1], arg.keys[1], arg.dt).kind = "ok"

(***************************************************************************)
(* The read machine: the read-only operations of an HPIdata built by       *)
(* NewHPIdata over series that were constructed, appended to or copied.    *)
(***************************************************************************)
\* A series value placed in a heap of its own.
SeriesOf(sv) ==
  LET d == MakeSlice(EmptyHeap, sv.dates, 0)
      x == MakeSlice(d.heap, sv.indx, 0)
  IN [s |-> [live |-> TRUE, geoName |-> sv.geoName, geoCode |-> sv.geoCode,
             dates |-> d.sl, indx |-> x.sl, lastDt |-> sv.lastDt, lastIndx |-> sv.lastIndx],
      heap |-> x.heap]

\* HPIseries.Append and HPIseries.Copy on series values.
AppendVal(sv, dts, indx) ==
  LET o == SeriesOf(sv)
      n == SeriesAppend(o.heap, o.s, dts, indx, 0, 0)
  IN [r |-> n.r, s |-> SeriesVal(n.heap, n.s)]

CopyVal(sv) ==
  LET o == SeriesOf(sv)
      n == Copy(o.heap, o.s)
  IN SeriesVal(n.heap, n.s)

ReadKeys == {"A", "B"}
ReadGeos == {"A", "B", "Z"}
ReadDts == {20193, 20194, 20201, 20203}
ReadTimes == {TimeDate(2019, 12, 31), TimeDate(2020, 2, 15), TimeDate(2020, 7, 1)}
\* A one-date series; a two-date series; the first after an Append, after an
\* Append that brought no value, and as Copy returns it.
ReadSeries ==
  {NewSeriesVal(<<20194>>, <<1>>),
   NewSeriesVal(<<20201, 20202>>, <<2, 1>>),
   AppendVal(NewSeriesVal(<<20194>>, <<1>>), <<20201>>, <<2>>).s,
   AppendVal(NewSeriesVal(<<20194>>, <<1>>), <<20201>>, <<>>).s,
   CopyVal(NewSeriesVal(<<20194>>, <<1>>))}
ReadMaps == UNION {[K -> ReadSeries] : K \in SUBSET ReadKeys}
ReadData == {NewHPIdata("state", m).hd : m \in ReadMaps}

NoReadArg ==
  [geo |-> "", dt |-> 0, dtStart |-> 0, dtEnd |-> 0,
   dateStart |-> TimeDate(1, 1, 1), dateEnd |-> TimeDate(1, 1, 1)]
RetRead(op, r, dt, s) ==
  [op |-> op, kind |-> r.kind, val |-> r.val, msg |-> r.msg, dt |-> dt, s |-> s]

InitRead ==
  /\ h = NoSeries
  /\ c = NoSeries
  /\ heap = EmptyHeap
  /\ made = NotMade
  /\ hdata \in ReadData
  /\ arg = NoReadArg
  /\ ret = RetRead("", Ok(0), 0, NilSeries)

DoHdGeo(geo) ==
  /\ Running
  /\ ret' = RetRead("HPIdata.Geo", HPIdataGeoSeries(hdata, geo).r, 0, HPIdataGeoSeries(hdata, geo).s)
  /\ arg' = [NoReadArg EXCEPT !.geo = geo]
  /\ UNCHANGED <<h, c, heap, made, hdata>>

DoHdLast(geo) ==
  /\ Running
  /\ ret' = RetRead("HPIdata.Last", HPIdataLast(hdata, geo).r, HPIdataLast(hdata, geo).dt, NilSeries)
  /\ arg' = [NoReadArg EXCEPT !.geo = geo]
  /\ UNCHANGED <<h, c, heap, made, hdata>>

DoHdIndex(geo, dt) ==
  /\ Running
  /\ ret' = RetRead("HPIdata.Index", HPIdataIndex(hdata, geo, dt), 0, NilSeries)
  /\ arg' = [NoReadArg EXCEPT !.geo = geo, !.dt = dt]
  /\ UNCHANGED <<h, c, heap, made, hdata>>

DoHdChange(geo, dtStart, dtEnd) ==
  /\ Running
  /\ ret' = RetRead("HPIdata.Change", HPIdataChange(hdata, geo, dtStart, dtEnd), 0, NilSeries)
  /\ arg' = [NoReadArg EXCEPT !.geo = geo, !.dtStart = dtStart, !.dtEnd = dtEnd]
  /\ UNCHANGED <<h, c, heap, made, hdata>>

DoHdChangeTime(geo, dateStart, dateEnd) ==
  /\ Running
  /\ ret' = RetRead("HPIdata.ChangeTime", HPIdataChangeTime(hdata, geo, dateStart, dateEnd), 0,
                    NilSeries)
  /\ arg' = [NoReadArg EXCEPT !.geo = geo, !.dateStart = dateStart, !.dateEnd = dateEnd]
  /\ UNCHANGED <<h, c, heap, made, hdata>>

NextRead ==
  \/ \E geo \in ReadGeos : DoHdGeo(geo)
  \/ \E geo \in ReadGeos : DoHdLast(geo)
  \/ \E geo \in ReadGeos, dt \in ReadDts : DoHdIndex(geo, dt)
  \/ \E geo \in ReadGeos, dtStart \in ReadDts, dtEnd \in ReadDts : DoHdChange(geo, dtStart, dtEnd)
  \/ \E geo \in ReadGeos, dateStart \in ReadTimes, dateEnd \in ReadTimes :
       DoHdChangeTime(geo, dateStart, dateEnd)

SpecRead == InitRead /\ [][NextRead]_vars

\* What a call returned, without the call's name.
RetOutcome == [kind |-> ret.kind, val |-> ret.val, msg |-> ret.msg]
KeyedSeries == hdata.series[arg.geo]

\* C12: HPIdata.Change(geo, dtStart, dtEnd) on a key of the dataset returns
\* what HPIseries.Change of the keyed series returns: Index(dtEnd) /
\* Index(dtStart) when both lookups succeed, else the error of the start
\* lookup or, when that succeeds, of the end lookup, and no ratio; the call
\* leaves the dataset as it was.
ChangeAnswers ==
  (ret.op = "HPIdata.Change" /\ arg.geo \in DOMAIN hdata.series) =>
    LET hpiS == Index(KeyedSeries.dates, KeyedSeries.indx, arg.dtStart)
        hpiE == Index(KeyedSeries.dates, KeyedSeries.indx, arg.dtEnd)
    IN /\ RetOutcome = SeriesChange(KeyedSeries, arg.dtStart, arg.dtEnd)
       /\ (hpiS.kind = "ok" /\ hpiE.kind = "ok")
            => RetOutcome = Ok(Float32Div(hpiE.val, hpiS.val))
       /\ hpiS.kind = "err" => RetOutcome = Err(hpiS.msg)
       /\ (hpiS.kind = "ok" /\ hpiE.kind = "err") => RetOutcome = Err(hpiE.msg)

C12_ChangeIsRatio ==
  /\ []ChangeAnswers
  /\ [][ret'.op = "HPIdata.Change" => hdata' = hdata]_vars

\* C12 witness: Change answers 2/1 from two stored dates with different values.
C12_Witness ==
  /\ ret.op = "HPIdata.Change" /\ ret.kind = "ok"
  /\ arg.dtStart < arg.dtEnd
  /\ ret.val = [num |-> 2, den |-> 1]

\* C14: on a key the dataset lacks, Geo, Last, Index, Change and ChangeTime
\* return the geo-not-found error and no value; on a key it holds they return
\* what the same operation of the keyed series returns; none changes the
\* dataset.
ReadOps == {"HPIdata.Geo", "HPIdata.Last", "HPIdata.Index", "HPIdata.Change", "HPIdata.ChangeTime"}

ReadDelegates ==
  ret.op \in ReadOps =>
    IF arg.geo \notin DOMAIN hdata.series
      THEN RetOutcome = Err("geo not found") /\ ret.dt = 0 /\ ret.s = NilSeries
      ELSE /\ ret.op = "HPIdata.Geo" => (ret.kind = "ok" /\ ret.s = KeyedSeries)
           /\ ret.op = "HPIdata.Last" =>
                (ret.kind = "ok" /\ [dt |-> ret.dt, indx |-> ret.val] = Last(KeyedSeries))
           /\ ret.op = "HPIdata.Index" =>
                RetOutcome = Index(KeyedSeries.dates, KeyedSeries.indx, arg.dt)
           /\ ret.op = "HPIdata.Change" =>
                RetOutcome = SeriesChange(KeyedSeries, arg.dtStart, arg.dtEnd)
           /\ ret.op = "HPIdata.ChangeTime" =>
                RetOutcome = SeriesChangeTime(KeyedSeries, arg.dateStart, arg.dateEnd)

C14_ReadsDelegate ==
  /\ []ReadDelegates
  /\ [][ret'.op \in ReadOps => hdata' = hdata]_vars

\* C14 witness: Last is asked for a key that a dataset of two series lacks.
C14_Witness ==
  /\ ret.op = "HPIdata.Last" /\ ret.kind = "err"
  /\ arg.geo \notin DOMAIN hdata.series
  /\ DOMAIN hdata.series = ReadKeys

(***************************************************************************)
(* The dataset machine: HPIdata.Append of one dataset to another. The      *)
(* range over hd.series visits the keys in an order the Go runtime picks.  *)
(***************************************************************************)
\* The loop of HPIdata.Append over the keys still to visit, in order.
RECURSIVE HPIdataAppendLoop(_, _, _)
HPIdataAppendLoop(hd, ta, order) ==
  IF order = <<>>
    THEN [r |-> Ok(0), hd |-> hd]
    ELSE LET k == Head(order)
         IN IF HPIdataGeo(ta, k).kind # "ok"
              THEN [r |-> Err("cannot find geo in append data"), hd |-> hd]
              ELSE LET e1 == AppendVal(hd.series[k], ta.series[k].dates, ta.series[k].indx)
                   IN IF e1.r.kind # "ok"
                        THEN [r |-> e1.r, hd |-> hd]
                        ELSE HPIdataAppendLoop([hd EXCEPT !.series[k] = e1.s], ta, Tail(order))

\* HPIdata.Append: the geoLevel check, then the loop.
HPIdataAppend(hd, ta, order) ==
  IF hd.geoLevel # ta.geoLevel
    THEN [r |-> Err("geoLevel not the same in append"), hd |-> hd]
    ELSE HPIdataAppendLoop(hd, ta, order)

\* The orders in which a range over the keys K can visit them.
Orders(K) == {o \in [1..Cardinality(K) -> K] : \A i, j \in 1..Cardinality(K) : o[i] = o[j] => i = j}

DataKeys == {"A", "B"}
DataLevels == {"state", "metro"}
DataSeries ==
  {NewSeriesVal(<<20194>>, <<1>>),
   NewSeriesVal(<<20201>>, <<2>>),
   NewSeriesVal(<<20201, 20202>>, <<2, 1>>)}
DataMaps == UNION {[K -> DataSeries] : K \in SUBSET DataKeys}
DataSets == {NewHPIdata(l, m).hd : l \in DataLevels, m \in DataMaps}

NoDataArg == [ta |-> NoData, order |-> <<>>]
RetData(op, r) == [op |-> op, kind |-> r.kind, val |-> r.val, msg |-> r.msg]

InitData ==
  /\ h = NoSeries
  /\ c = NoSeries
  /\ heap = EmptyHeap
  /\ made = NotMade
  /\ hdata \in DataSets
  /\ arg = NoDataArg
  /\ ret = RetData("", Ok(0))

DoHdAppend(ta, order) ==
  /\ Running
  /\ \A k \in DOMAIN hdata.series \cap DOMAIN ta.series :
       Len(hdata.series[k].dates) + Len(ta.series[k].dates) <= MaxDataDates
  /\ hdata' = HPIdataAppend(hdata, ta, order).hd
  /\ ret' = RetData("HPIdata.Append", HPIdataAppend(hdata, ta, order).r)
  /\ arg' = [ta |-> ta, order |-> order]
  /\ UNCHANGED <<h, c, heap, made>>

NextData == \E ta \in DataSets, order \in Orders(DOMAIN hdata.series) : DoHdAppend(ta, order)

SpecData == InitData /\ [][NextData]_vars

\* C13: HPIdata.Append(ta) returns an error when the geoLevels differ, the
\* geo-not-found error when a key of the receiver is missing from ta, and
\* otherwise, when it returns nil, has applied the series' Append to every
\* key of the receiver; the receiver's keys never change.
C13_DataAppend ==
  [][ret'.op = "HPIdata.Append" =>
       LET ta == arg'.ta
           missing == DOMAIN hdata.series \ DOMAIN ta.series
       IN /\ DOMAIN hdata'.series = DOMAIN hdata.series
          /\ hdata'.geoLevel = hdata.geoLevel
          /\ hdata.geoLevel # ta.geoLevel =>
               (ret'.kind = "err" /\ ret'.msg = "geoLevel not the same in append"
                /\ hdata' = hdata)
          /\ (hdata.geoLevel = ta.geoLevel /\ missing # {}) =>
               (ret'.kind = "err" /\ ret'.msg = "cannot find geo in append data")
          /\ (hdata.geoLevel = ta.geoLevel /\ missing = {} /\ ret'.kind = "ok") =>
               \A k \in DOMAIN hdata.series :
                 hdata'.series[k]
                   = AppendVal(hdata.series[k], ta.series[k].dates, ta.series[k].indx).s]_vars

\* C30: HPIdata.Append is all or nothing: when hd.Append(ta) returns an
\* error, every series of hd has the dates and values it had before the
\* call, in whatever order the keys of hd were visited.
C30_DataAppendAllOrNothing ==
  [][(ret'.op = "HPIdata.Append" /\ ret'.kind = "err") =>
       \A k \in DOMAIN hdata.series :
         /\ k \in DOMAIN hdata'.series
         /\ hdata'.series[k].dates = hdata.series[k].dates
         /\ hdata'.series[k].indx = hdata.series[k].indx]_vars

(***************************************************************************)
(* The quarter machine: one call of a function of the quarter arithmetic   *)
(* or of the date conversions, on an input drawn from the sets below.      *)
(***************************************************************************)
\* The codes of the legal range: years 1960..2060, quarters 1..4.
ValidQtrs == {10 * y + q : y \in 1960..2060, q \in 1..4}
\* Every int from below the legal range to above it: illegal years and the
\* illegal quarters 0 and 5..9 of legal years are among them.
QtrInputs == 19580..20620
\* Codes of the free sequences: they cross a year boundary.
QtrSeqCodes == {20193, 20194, 20201, 20202}
\* Calendar dates: every month of the years 1959..2061, early, middle and last day.
DaysIn(y, m) ==
  IF m = 2
    THEN IF (y % 4 = 0 /\ y % 100 # 0) \/ y % 400 = 0 THEN 29 ELSE 28
    ELSE IF m \in {4, 6, 9, 11} THEN 30 ELSE 31
QtrDates == {TimeDate(y, m, d) : y \in 1959..2061, m \in 1..12, d \in {1, 15, 28}}
              \cup {TimeDate(y, m, DaysIn(y, m)) : y \in 1959..2061, m \in 1..12}

\* dt, NextQtr(dt), NextQtr(NextQtr(dt)), ...: n codes.
RECURSIVE Chain(_, _)
Chain(dt, n) == IF n = 0 THEN <<>> ELSE <<dt>> \o Chain(NextQtr(dt).val, n - 1)

NoQtrArg == [dt |-> 0, dt1 |-> 0, dts |-> <<>>, date |-> TimeDate(1, 1, 1)]
RetQtr(op, r) == [op |-> op, kind |-> r.kind, val |-> r.val, msg |-> r.msg]

InitQtr ==
  /\ h = NoSeries
  /\ c = NoSeries
  /\ heap = EmptyHeap
  /\ made = NotMade
  /\ hdata = NoData
  /\ arg = NoQtrArg
  /\ ret = RetQtr("", Ok(0))

DoQtrsOK(dts) ==
  /\ ret.op = ""
  /\ ret' = RetQtr("QtrsOK", Ok(QtrsOK(dts)))
  /\ arg' = [NoQtrArg EXCEPT !.dts = dts]
  /\ UNCHANGED <<h, c, heap, made, hdata>>

\* NewHPIseries on dates with one value per date.
DoQtrNewHPIseries(dates) ==
  /\ ret.op = ""
  /\ ret' = RetQtr("NewHPIseries", NewHPIseriesCheck(dates, [i \in 1..Len(dates) |-> 1]))
  /\ arg' = [NoQtrArg EXCEPT !.dts = dates]
  /\ UNCHANGED <<h, c, heap, made, hdata>>

DoNextQtr(dt) ==
  /\ ret.op = ""
  /\ ret' = RetQtr("NextQtr", NextQtr(dt))
  /\ arg' = [NoQtrArg EXCEPT !.dt = dt]
  /\ UNCHANGED <<h, c, heap, made, hdata>>

DoQtrDiff(dt0, dt1) ==
  /\ ret.op = ""
  /\ ret' = RetQtr("QtrDiff", Ok(QtrDiff(dt0, dt1)))
  /\ arg' = [NoQtrArg EXCEPT !.dt = dt0, !.dt1 = dt1]
  /\ UNCHANGED <<h, c, heap, made, hdata>>

DoToTime(dt) ==
  /\ ret.op = ""
  /\ ret' = RetQtr("ToTime", ToTime(dt))
  /\ arg' = [NoQtrArg EXCEPT !.dt = dt]
  /\ UNCHANGED <<h, c, heap, made, hdata>>

DoToYrQtr(date) ==
  /\ ret.op = ""
  /\ ret' = RetQtr("ToYrQtr", Ok(ToYrQtr(date)))
  /\ arg' = [NoQtrArg EXCEPT !.date = date]
  /\ UNCHANGED <<h, c, heap, made, hdata>>

\* A run is one call: nothing is called once a result is there.
NextQtrMachine ==
  \/ ret.op = "" /\ \E dts \in SeqsUpTo(QtrSeqCodes, MaxQtrSeq) \cup
                 {Chain(q, n) : q \in ValidQtrs, n \in 0..MaxChain} : DoQtrsOK(dts)
  \/ ret.op = "" /\ \E dates \in SeqsUpTo(QtrSeqCodes, MaxQtrSeq) : DoQtrNewHPIseries(dates)
  \/ ret.op = "" /\ \E dt \in QtrInputs : DoNextQtr(dt)
  \/ ret.op = "" /\ \E dt0 \in ValidQtrs, dt1 \in ValidQtrs : DoQtrDiff(dt0, dt1)
  \/ ret.op = "" /\ \E dt \in QtrInputs : DoToTime(dt)
  \/ ret.op = "" /\ \E date \in QtrDates : DoToYrQtr(date)

SpecQtr == InitQtr /\ [][NextQtrMachine]_vars

\* The quarter a code names, counted from year 0.
QtrOrd(dt) == 4 * (dt \div 10) + (dt - 10 * (dt \div 10))
\* Two equal adjacent codes, or an adjacent pair whose later code is an
\* earlier quarter.
HasDuplicate(dts) == \E j \in 2..Len(dts) : dts[j] = dts[j - 1]
HasReversal(dts) == \E j \in 2..Len(dts) : QtrOrd(dts[j]) < QtrOrd(dts[j - 1])

\* C15: QtrsOK is false on every sequence with a duplicate or a reversal, and
\* NewHPIseries returns an error on such dates.
C15_DuplicateOrReversalRejected ==
  /\ (ret.op = "QtrsOK" /\ (HasDuplicate(arg.dts) \/ HasReversal(arg.dts))) => ret.val = FALSE
  /\ (ret.op = "NewHPIseries" /\ (HasDuplicate(arg.dts) \/ HasReversal(arg.dts)))
       => ret.kind = "err"

\* A sequence built from a legal code by repeated NextQtr.
IsChain(dts) ==
  Len(dts) > 0 => (dts[1] \in ValidQtrs /\ dts = Chain(dts[1], Len(dts)))

\* C16: for every legal code q, QtrDiff(q, NextQtr(q)) is 1, and QtrsOK is
\* true on every sequence q, NextQtr(q), NextQtr(NextQtr(q)), ..., the empty
\* and the one-element sequences among them.
C16_NextQtrStepsByOne ==
  /\ (ret.op = "NextQtr" /\ arg.dt \in ValidQtrs) =>
       (ret.kind = "ok" /\ QtrDiff(arg.dt, ret.val) = 1)
  /\ (ret.op = "QtrsOK" /\ IsChain(arg.dts)) => ret.val = TRUE

\* C16 witness: QtrsOK on a longest chain that starts in a fourth quarter.
C16_Witness ==
  /\ ret.op = "QtrsOK" /\ ret.val = TRUE
  /\ Len(arg.dts) = MaxChain /\ IsChain(arg.dts)
  /\ arg.dts[1] - 10 * (arg.dts[1] \div 10) = 4

Abs(n) == IF n < 0 THEN 0 - n ELSE n

\* C17: for legal codes a and b, QtrDiff(a, b) = QtrDiff(b, a) and both are
\* |(4*year(a) + quarter(a)) - (4*year(b) + quarter(b))|, never negative.
C17_QtrDiffSymmetric ==
  ret.op = "QtrDiff" =>
    /\ ret.val = Abs(QtrOrd(arg.dt) - QtrOrd(arg.dt1))
    /\ ret.val = QtrDiff(arg.dt1, arg.dt)
    /\ ret.val >= 0

\* C17 witness: the first operand is the later one, in a later year.
C17_Witness ==
  /\ ret.op = "QtrDiff"
  /\ arg.dt \div 10 > arg.dt1 \div 10
  /\ arg.dt - 10 * (arg.dt \div 10) < arg.dt1 - 10 * (arg.dt1 \div 10)
  /\ ret.val > 0

\* C18: on a legal code NextQtr returns 10*year + quarter + 1 for quarters
\* 1..3 and 10*(year + 1) + 1 for quarter 4; on every other int it panics.
C18_NextQtrLegalOrPanic ==
  ret.op = "NextQtr" =>
    LET yr == arg.dt \div 10
        qtr == arg.dt - 10 * yr
    IN IF arg.dt \in ValidQtrs
         THEN /\ ret.kind = "ok"
              /\ ret.val = IF qtr = 4 THEN 10 * (yr + 1) + 1 ELSE 10 * yr + qtr + 1
         ELSE ret.kind = "panic"

\* The first day of the quarter that holds date d.
QuarterStart(d) == TimeDate(d.year, d.month - ((d.month - 1) % 3), 1)

\* C19: ToTime(q) is an error exactly when the year q/10 is outside 1960..2060
\* or the quarter q%10 outside 1..4, and else day 1 of month 1 + 3*(quarter-1)
\* of that year; ToYrQtr(ToTime(q)) = q for every legal q; ToTime(ToYrQtr(d))
\* is the first day of d's quarter for every date d of the years 1960..2060.
C19_ToTimeInverse ==
  /\ ret.op = "ToTime" =>
       LET yr == arg.dt \div 10
           qtr == arg.dt - 10 * yr
       IN /\ ret.kind = "err" <=> (yr < 1960 \/ yr > 2060 \/ qtr < 1 \/ qtr > 4)
          /\ ret.kind = "err" <=> arg.dt \notin ValidQtrs
          /\ ret.kind # "err" =>
               /\ ret.kind = "ok"
               /\ ret.val = TimeDate(yr, 1 + 3 * (qtr - 1), 1)
               /\ ToYrQtr(ret.val) = arg.dt
  /\ (ret.op = "ToYrQtr" /\ arg.date.year \in 1960..2060) =>
       ToTime(ret.val) = Ok(QuarterStart(arg.date))

\* C19 witness: a legal fourth quarter is converted to October 1.
C19_Witness ==
  /\ ret.op = "ToTime" /\ ret.kind = "ok"
  /\ arg.dt - 10 * (arg.dt \div 10) = 4
  /\ ret.val.month = 10 /\ ret.val.day = 1

\* C20: ToYrQtr of a date of year y and month m is 10*y + 1 + (m-1) div 3:
\* quarter 1 for months 1..3, 2 for 4..6, 3 for 7..9, 4 for 10..12, whatever
\* the day of the month.
C20_ToYrQtrFormula ==
  ret.op = "ToYrQtr" =>
    LET y == arg.date.year
        m == arg.date.month
    IN /\ ret.val = 10 * y + (1 + (m - 1) \div 3)
       /\ ret.val - 10 * y = (IF m <= 3 THEN 1 ELSE IF m <= 6 THEN 2 ELSE IF m <= 9 THEN 3 ELSE 4)
       /\ \A d \in 1..DaysIn(y, m) : ToYrQtr(TimeDate(y, m, d)) = ret.val

\* C20 witness: the last day of a December is converted to quarter 4.
C20_Witness ==
  /\ ret.op = "ToYrQtr"
  /\ arg.date.month = 12 /\ arg.date.day = 31
  /\ ret.val = 10 * arg.date.year + 4

(***************************************************************************)
(* Load at the level of the dataset, on the rows dass.ParseRows hands it.  *)
(***************************************************************************)
\* A series Load has just created for geo: no dates yet.
NewLoadSeries(geo) ==
  [geoName |-> geo, geoCode |-> geo, dates |-> <<>>, indx |-> <<>>, lastDt |-> 0, lastIndx |-> 0]

\* The row loop of Load: a row whose geoCode differs from the row before
\* starts a new series under that key; the row's pair is appended to the
\* current series and becomes its anchor.
RECURSIVE LoadLoop(_, _, _)
LoadLoop(hd, lastGeo, rows) ==
  IF rows = <<>>
    THEN hd
    ELSE LET row == Head(rows)
             geo == row.geoCode
             series == IF geo # lastGeo THEN NewLoadSeries(geo) ELSE hd.series[geo]
             yrQtr == 10 * row.year + row.qtr
             s1 == [series EXCEPT !.dates = Append(@, yrQtr), !.indx = Append(@, row.index),
                                  !.lastDt = yrQtr, !.lastIndx = row.index]
         IN LoadLoop([hd EXCEPT !.series = [k \in DOMAIN @ \cup {geo} |-> IF k = geo THEN s1 ELSE @[k]]],
                     geo, Tail(rows))

\* Load: the level is read off the sheet's first cell, unchecked.
LoadData(header, rows) ==
  LoadLoop([geoLevel |-> geoLevelOf(header), series |-> <<>>], "", rows)

\* HPIdata.Copy: the same label over a copy of every series.
HPIdataCopy(hd) ==
  [geoLevel |-> hd.geoLevel, series |-> [k \in DOMAIN hd.series |-> CopyVal(hd.series[k])]]

\* Headers: up to MaxPieces pieces, each one of the seven phrases, in lower
\* case or with capitals, or a single word.
RECURSIVE Flatten(_)
Flatten(ps) == IF ps = <<>> THEN <<>> ELSE Head(ps) \o Flatten(Tail(ps))
Phrases ==
  {ThreeDigitZip, MetropolitanAreas, NotInMetropolitan, StatesAndDC, CensusDivisions,
   PuertoRico, ManufacturedHomes}
HeaderPieces ==
  Phrases \cup {[i \in 1..Len(p) |-> [w |-> p[i].w, up |-> TRUE]] : p \in Phrases}
          \cup {Lower(<<"metropolitan">>), Lower(<<"areas">>), Lower(<<"index">>)}
Headers == {Flatten(ps) : ps \in SeqsUpTo(HeaderPieces, MaxPieces)}

(***************************************************************************)
(* The level machine: a dataset is made by NewHPIdata or by Load, and is   *)
(* then copied and appended to.                                            *)
(***************************************************************************)
LevelLabels == GeoLevels \cup {"unknown", "county"}
LevelMaps == {<<>>, [k \in {"A"} |-> NewSeriesVal(<<20194>>, <<1>>)]}
LevelRows == [geoCode : {"A", "B"}, year : {2019}, qtr : {4}, index : {1}]
LevelTas ==
  {NewHPIdata(l, [k \in {"A"} |-> NewSeriesVal(<<20201>>, <<2>>)]).hd : l \in {"state", "metro"}}
NoLevelArg == [label |-> "", header |-> <<>>]

InitLevel ==
  /\ h = NoSeries
  /\ c = NoSeries
  /\ heap = EmptyHeap
  /\ made = NotMade
  /\ hdata = NoData
  /\ arg = NoLevelArg
  /\ ret = RetData("", Ok(0))

DoNewHPIdata(label, series) ==
  /\ ret.op = ""
  /\ hdata' = NewHPIdata(label, series).hd
  /\ ret' = RetData("NewHPIdata", NewHPIdata(label, series).r)
  /\ arg' = [NoLevelArg EXCEPT !.label = label]
  /\ UNCHANGED <<h, c, heap, made>>

DoLoadData(header, rows) ==
  /\ ret.op = ""
  /\ hdata' = LoadData(header, rows)
  /\ ret' = RetData("Load", Ok(0))
  /\ arg' = [NoLevelArg EXCEPT !.header = header]
  /\ UNCHANGED <<h, c, heap, made>>

DoHdCopy ==
  /\ Running
  /\ hdata # NoData
  /\ ret.op # "HPIdata.Copy"
  /\ hdata' = HPIdataCopy(hdata)
  /\ ret' = RetData("HPIdata.Copy", Ok(0))
  /\ arg' = NoLevelArg
  /\ UNCHANGED <<h, c, heap, made>>

NextLevel ==
  \/ ret.op = "" /\ \E label \in LevelLabels, series \in LevelMaps : DoNewHPIdata(label, series)
  \/ ret.op = "" /\ \E header \in Headers, rows \in SeqsUpTo(LevelRows, MaxLevelRows) \ {<<>>} :
                      DoLoadData(header, rows)
  \/ DoHdCopy
  \/ hdata # NoData /\ \E ta \in LevelTas, order \in Orders(DOMAIN hdata.series) :
                         DoHdAppend(ta, order)

SpecLevel == InitLevel /\ [][NextLevel]_vars

\* C22: a dataset made by NewHPIdata or Load, and copied or appended to
\* since, carries one of the seven labels, and the label never changes;
\* NewHPIdata returns an error (and no dataset) for every other label.
LevelIsOneOfSeven == hdata # NoData => hdata.geoLevel \in GeoLevels
NewHPIdataRejects ==
  (ret.op = "NewHPIdata" /\ arg.label \notin GeoLevels) => (ret.kind = "err" /\ hdata = NoData)

C22_LevelOneOfSeven ==
  /\ []LevelIsOneOfSeven
  /\ []NewHPIdataRejects
  /\ [][hdata # NoData => hdata'.geoLevel = hdata.geoLevel]_vars

(***************************************************************************)
(* The header machine: one call of geoLevel on one header.                 *)
(***************************************************************************)
InitGeoLevel ==
  /\ h = NoSeries
  /\ c = NoSeries
  /\ heap = EmptyHeap
  /\ made = NotMade
  /\ hdata = NoData
  /\ arg = NoLevelArg
  /\ ret = RetData("", Ok(""))

DoGeoLevel(header) ==
  /\ ret.op = ""
  /\ ret' = RetData("geoLevel", Ok(geoLevelOf(header)))
  /\ arg' = [NoLevelArg EXCEPT !.header = header]
  /\ UNCHANGED <<h, c, heap, made, hdata>>

NextGeoLevel == ret.op = "" /\ \E header \in Headers : DoGeoLevel(header)

SpecGeoLevel == InitGeoLevel /\ [][NextGeoLevel]_vars

\* The words of a header whatever their case, and whether the words ws
\* stand somewhere in it one after the other.
Words(str) == [i \in 1..Len(str) |-> str[i].w]
Mentions(str, ws) ==
  \E i \in 1..Len(str) :
    /\ i + Len(ws) - 1 <= Len(str)
    /\ SubSeq(Words(str), i, i + Len(ws) - 1) = ws
LabelOf ==
  [l \in GeoLevels |->
     CASE l = "zip3" -> <<"three-digit", "zip">>
       [] l = "metro" -> <<"metropolitan", "areas">>
       [] l = "nonmetro" -> <<"not", "in", "metropolitan", "statistical", "areas">>
       [] l = "state" -> <<"states", "and", "the", "district", "of", "columbia">>
       [] l = "us" -> <<"census", "divisions">>
       [] l = "pr" -> <<"puerto", "rico">>
       [] l = "mh" -> <<"manufactured", "homes">>]
Mentioned(str) == {l \in GeoLevels : Mentions(str, LabelOf[l])}

\* C23: geoLevel returns the label of a phrase the header contains, in
\* whatever case the header is written (so the label of the phrase when
\* there is just one), and "unknown", without an error or a panic, when the
\* header contains none of the seven phrases.
C23_GeoLevelClassifies ==
  ret.op = "geoLevel" =>
    /\ ret.kind = "ok"
    /\ Mentioned(arg.header) = {} => ret.val = "unknown"
    /\ Mentioned(arg.header) # {} => ret.val \in Mentioned(arg.header)

\* A header written with capitals that contains one phrase, and one that
\* contains none.
C23_Witness ==
  /\ ret.op = "geoLevel"
  /\ arg.header = Upper(<<"not", "in", "metropolitan", "statistical", "areas">>) \o Lower(<<"index">>)
  /\ ret.val = "nonmetro"

(***************************************************************************)
(* Parse and doRow of src/fhfa.go. A sheet is a sequence of rows, a row a  *)
(* sequence of cells; a cell is the text of a whole number, or other text  *)
(* (which may be empty).                                                   *)
(***************************************************************************)
Num(n) == [num |-> TRUE, n |-> n, s |-> ""]
Text(str) == [num |-> FALSE, n |-> 0, s |-> str]

\* strconv.ParseInt and strconv.ParseFloat on a cell.
ParseInt(cell) == IF cell.num THEN Ok(cell.n) ELSE Err("invalid syntax")
ParseFloat(cell) == IF cell.num THEN Ok(cell.n) ELSE Err("invalid syntax")

\* strings.ToLower(cell) == "year"
IsYear(cell) == ~cell.num /\ cell.s \in {"year", "Year"}

\* doRow: the fields of a row; a year or quarter that is no number panics,
\* an index that is no number gives geo "", yrqtr 0, indx 0.
doRow(row, offset) ==
  IF Len(row) < 2 + offset \/ ParseInt(row[2 + offset]).kind = "err"
    THEN [kind |-> "panic", geo |-> "", yrqtr |-> 0, indx |-> 0]
  ELSE IF Len(row) < 3 + offset \/ ParseInt(row[3 + offset]).kind = "err"
    THEN [kind |-> "panic", geo |-> "", yrqtr |-> 0, indx |-> 0]
  ELSE IF Len(row) < 4 + offset
    THEN [kind |-> "panic", geo |-> "", yrqtr |-> 0, indx |-> 0]
  ELSE IF ParseFloat(row[4 + offset]).kind = "err"
    THEN [kind |-> "ok", geo |-> "", yrqtr |-> 0, indx |-> 0]
  ELSE [kind |-> "ok", geo |-> row[1].s,
        yrqtr |-> 10 * ParseInt(row[2 + offset]).val + ParseInt(row[3 + offset]).val,
        indx |-> ParseFloat(row[4 + offset]).val]

\* A series Parse has just created.
NewHPIgeo(geoName, geoCode) == [geoName |-> geoName, geoCode |-> geoCode, dates |-> <<>>, hpi |-> <<>>]

\* The row loop of Parse. st holds the loop's variables: inData, lastGeo,
\* hasGeoCode, and the key under which the open series stands in the map
\* (open is FALSE while the series pointer is nil).
RECURSIVE ParseLoop(_, _, _)
ParseLoop(hd, st, rows) ==
  IF rows = <<>>
    THEN [kind |-> "ok", hd |-> hd]
    ELSE
      LET row == Head(rows)
          rest == Tail(rows)
      IN IF Len(row) < 4 THEN ParseLoop(hd, st, rest)
         ELSE IF IsYear(row[2]) THEN ParseLoop(hd, [st EXCEPT !.inData = TRUE], rest)
         ELSE IF IsYear(row[3])
           THEN ParseLoop(hd, [st EXCEPT !.inData = TRUE, !.hasGeoCode = 1], rest)
         ELSE IF ~st.inData THEN ParseLoop(hd, st, rest)
         ELSE
           LET d == doRow(row, st.hasGeoCode)
           IN IF d.kind = "panic" THEN [kind |-> "panic", hd |-> hd]
              ELSE IF d.indx = 0 THEN ParseLoop(hd, st, rest)
              ELSE
                LET fresh == d.geo # st.lastGeo
                    key == IF fresh THEN row[1 + st.hasGeoCode].s ELSE st.key
                    geoCode == IF st.hasGeoCode = 1 THEN row[2].s ELSE ""
                    series == IF fresh THEN NewHPIgeo(d.geo, geoCode) ELSE hd.series[key]
                    s1 == [series EXCEPT !.dates = Append(@, d.yrqtr), !.hpi = Append(@, d.indx)]
                IN IF ~fresh /\ ~st.open
                     THEN [kind |-> "panic", hd |-> hd]
                     ELSE ParseLoop(
                            [hd EXCEPT !.series =
                               [k \in DOMAIN @ \cup {key} |-> IF k = key THEN s1 ELSE @[k]]],
                            [st EXCEPT !.lastGeo = d.geo, !.key = key, !.open = TRUE],
                            rest)

\* Parse of a sheet that has been opened: geo is the source's name.
Parse(geo, rows) ==
  ParseLoop([geoLevel |-> geo, series |-> <<>>],
            [inData |-> FALSE, lastGeo |-> "", hasGeoCode |-> 0, key |-> "", open |-> FALSE],
            rows)

(***************************************************************************)
(* The parse machine: one call of Parse on one sheet.                      *)
(***************************************************************************)
ParseGeos == {"A", "B"}
CodeOf(geo) == IF geo = "A" THEN "10" ELSE "20"
PlainHeader == <<Text("State"), Text("Year"), Text("Quarter"), Text("Index")>>
MetroHeader == <<Text("Metro"), Text("CBSA"), Text("year"), Text("qtr"), Text("index")>>
\* The rows of a sheet without codes: whole rows, and rows of geo A with a
\* year, quarter or index that is no number, an index of 0, or no index cell.
PlainRows ==
  {<<Text(g), Num(2019), Num(4), Num(v)>> : g \in ParseGeos, v \in {1, 2}}
    \cup {<<Text("A"), Text("-"), Num(4), Num(1)>>,
          <<Text("A"), Num(2019), Text(""), Num(1)>>,
          <<Text("A"), Num(2019), Num(4), Text("-")>>,
          <<Text("A"), Num(2019), Num(4), Num(0)>>,
          <<Text("A"), Num(2019), Num(4)>>}
\* The same rows in a sheet with codes.
MetroRows == {<<r[1], Text(CodeOf(r[1].s))>> \o Tail(r) : r \in PlainRows}
Sheets ==
  {<<PlainHeader>> \o rs : rs \in SeqsUpTo(PlainRows, MaxGridRows)}
    \cup {<<MetroHeader>> \o rs : rs \in SeqsUpTo(MetroRows, MaxGridRows)}
    \cup {<<r>> \o <<PlainHeader>> \o rs :
            r \in PlainRows, rs \in SeqsUpTo(PlainRows \cup {PlainHeader}, MaxGridRows - 1)}
NoParseArg == [source |-> "", rows |-> <<>>]

InitParse ==
  /\ h = NoSeries
  /\ c = NoSeries
  /\ heap = EmptyHeap
  /\ made = NotMade
  /\ hdata = NoData
  /\ arg = NoParseArg
  /\ ret = RetData("", Ok(0))

DoParse(source, rows) ==
  /\ ret.op = ""
  /\ hdata' = Parse(source, rows).hd
  /\ ret' = RetData("Parse", IF Parse(source, rows).kind = "panic" THEN Panic("doRow") ELSE Ok(0))
  /\ arg' = [source |-> source, rows |-> rows]
  /\ UNCHANGED <<h, c, heap, made>>

NextParse == ret.op = "" /\ \E source \in {"state"}, rows \in Sheets : DoParse(source, rows)

SpecParse == InitParse /\ [][NextParse]_vars

\* The number of cells before the year in the sheet's rows, and whether a
\* row is a heading.
Offset(rows) == IF \E i \in 1..Len(rows) : rows[i] = MetroHeader THEN 1 ELSE 0
IsHeading(row) == row \in {PlainHeader, MetroHeader}
\* A row to be skipped: fewer than 4 cells, or a year, quarter or index
\* that is missing or no number.
Malformed(row, off) ==
  \/ Len(row) < 4
  \/ \E i \in {2 + off, 3 + off, 4 + off} : i > Len(row) \/ ~row[i].num
RECURSIVE WithoutMalformed(_, _)
WithoutMalformed(rows, off) ==
  IF rows = <<>> THEN <<>>
  ELSE IF ~IsHeading(Head(rows)) /\ Malformed(Head(rows), off)
    THEN WithoutMalformed(Tail(rows), off)
    ELSE <<Head(rows)>> \o WithoutMalformed(Tail(rows), off)

\* C24: a row whose year, quarter or index is missing or no number, or that
\* has fewer than 4 cells, is skipped in silence: Parse does not panic, and
\* returns the dataset it returns for the sheet without these rows.
C24_MalformedRowsSkipped ==
  ret.op = "Parse" =>
    /\ ret.kind = "ok"
    /\ hdata = Parse(arg.source, WithoutMalformed(arg.rows, Offset(arg.rows))).hd

\* The rows Parse accepts in a sheet whose first row is its only heading,
\* as (key, date, value) triples in the order of the sheet.
OneHeading == Len(arg.rows) > 0 /\ \A i \in 1..Len(arg.rows) : IsHeading(arg.rows[i]) <=> i = 1
RECURSIVE AcceptedRows(_, _)
AcceptedRows(rows, off) ==
  IF rows = <<>> THEN <<>>
  ELSE LET row == Head(rows)
       IN IF IsHeading(row) \/ Malformed(row, off) \/ row[4 + off].n = 0
            THEN AcceptedRows(Tail(rows), off)
            ELSE <<[key |-> row[1 + off].s, date |-> 10 * row[2 + off].n + row[3 + off].n,
                    value |-> row[4 + off].n]>> \o AcceptedRows(Tail(rows), off)
PairsOf(acc, k) == SelectSeq(acc, LAMBDA a : a.key = k)

\* C25: after Parse the dataset has one series for each key among the
\* accepted rows and no other, and the series of key k holds the pairs of
\* all accepted rows of key k in the order of the sheet.
C25_OneSeriesPerKey ==
  (ret.op = "Parse" /\ ret.kind = "ok" /\ OneHeading) =>
    LET acc == AcceptedRows(arg.rows, Offset(arg.rows))
    IN /\ DOMAIN hdata.series = {acc[i].key : i \in 1..Len(acc)}
       /\ \A k \in DOMAIN hdata.series :
            /\ hdata.series[k].dates = [i \in 1..Len(PairsOf(acc, k)) |-> PairsOf(acc, k)[i].date]
            /\ hdata.series[k].hpi = [i \in 1..Len(PairsOf(acc, k)) |-> PairsOf(acc, k)[i].value]

(***************************************************************************)
(* The readers machine: several readers call Index, Change, Last and Best  *)
(* on one dataset, each call interleaved with the calls of the others.     *)
(***************************************************************************)
Readers == {1, 2}
ReaderGeos == {"A", "Z"}
ReaderDts == {20194, 20201}
ReaderData == {hd \in ReadData : DOMAIN hd.series = {"A"}}
NoCall == [op |-> "", geo |-> "", dt |-> 0, dtEnd |-> 0, keys |-> <<>>]
NoAnswer == [kind |-> "ok", val |-> 0, msg |-> "", dt |-> 0, geoLevel |-> ""]
Answer(r, dt, geoLevel) ==
  [kind |-> r.kind, val |-> r.val, msg |-> r.msg, dt |-> dt, geoLevel |-> geoLevel]
ReadersRunning == \A r \in Readers : ret[r].kind # "panic"

InitReaders ==
  /\ h = NoSeries
  /\ c = NoSeries
  /\ heap = EmptyHeap
  /\ made = NotMade
  /\ hdata \in ReaderData
  /\ arg = [r \in Readers |-> NoCall]
  /\ ret = [r \in Readers |-> NoAnswer]

\* Mutant of DoReaderIndex: the lookup leaves its date in the series' anchor.
DoReaderIndexMovesAnchor(r, geo, dt) ==
  /\ ReadersRunning
  /\ ret' = [ret EXCEPT ![r] = Answer(HPIdataIndex(hdata, geo, dt), 0, "")]
  /\ arg' = [arg EXCEPT ![r] = [NoCall EXCEPT !.op = "HPIdata.Index", !.geo = geo, !.dt = dt]]
  /\ hdata' = IF geo \in DOMAIN hdata.series
                THEN [hdata EXCEPT !.series[geo].lastDt = dt]
                ELSE hdata
  /\ UNCHANGED <<h, c, heap, made>>

DoReaderIndex(r, geo, dt) ==
  /\ ReadersRunning
  /\ ret' = [ret EXCEPT ![r] = Answer(HPIdataIndex(hdata, geo, dt), 0, "")]
  /\ arg' = [arg EXCEPT ![r] = [NoCall EXCEPT !.op = "HPIdata.Index", !.geo = geo, !.dt = dt]]
  /\ UNCHANGED <<h, c, heap, made, hdata>>

DoReaderChange(r, geo, dtStart, dtEnd) ==
  /\ ReadersRunning
  /\ ret' = [ret EXCEPT ![r] = Answer(HPIdataChange(hdata, geo, dtStart, dtEnd), 0, "")]
  /\ arg' = [arg EXCEPT ![r] = [NoCall EXCEPT !.op = "HPIdata.Change", !.geo = geo,
                                                !.dt = dtStart, !.dtEnd = dtEnd]]
  /\ UNCHANGED <<h, c, heap, made, hdata>>

DoReaderLast(r, geo) ==
  /\ ReadersRunning
  /\ ret' = [ret EXCEPT ![r] = Answer(HPIdataLast(hdata, geo).r, HPIdataLast(hdata, geo).dt, "")]
  /\ arg' = [arg EXCEPT ![r] = [NoCall EXCEPT !.op = "HPIdata.Last", !.geo = geo]]
  /\ UNCHANGED <<h, c, heap, made, hdata>>

\* Best over as many references to the dataset as there are keys.
DoReaderBest(r, dt, keys) ==
  /\ ReadersRunning
  /\ LET b == Best(dt, keys, [i \in 1..Len(keys) |-> hdata])
     IN ret' = [ret EXCEPT ![r] = Answer(b.r, 0, b.geoLevel)]
  /\ arg' = [arg EXCEPT ![r] = [NoCall EXCEPT !.op = "Best", !.dt = dt, !.keys = keys]]
  /\ UNCHANGED <<h, c, heap, made, hdata>>

NextReaders ==
  \/ \E r \in Readers, geo \in ReaderGeos, dt \in ReaderDts : DoReaderIndex(r, geo, dt)
  \/ \E r \in Readers, geo \in ReaderGeos, dtStart \in ReaderDts, dtEnd \in ReaderDts :
       DoReaderChange(r, geo, dtStart, dtEnd)
  \/ \E r \in Readers, geo \in ReaderGeos : DoReaderLast(r, geo)
  \/ \E r \in Readers, dt \in ReaderDts, keys \in SeqsUpTo(ReaderGeos, MaxHpis) \ {<<>>} :
       DoReaderBest(r, dt, keys)

SpecReaders == InitReaders /\ [][NextReaders]_vars

\* C26: no call of Index, Change, Last or Best changes the dataset, however
\* the calls of the readers are interleaved: every series keeps its dates,
\* values and anchor; two readers that made the same call hold the same
\* result, and a reader that repeats its call gets the result again.
SameCallSameAnswer == \A r1, r2 \in Readers : arg[r1] = arg[r2] => ret[r1] = ret[r2]

C26_ReadsChangeNothing ==
  /\ []SameCallSameAnswer
  /\ [][hdata' = hdata]_vars
  /\ [][\A r \in Readers : arg'[r] = arg[r] => ret'[r] = ret[r]]_vars

\* C26 witness: both readers asked for the same change, after one of them
\* had looked up other things, and both hold the ratio.
C26_Witness ==
  /\ arg[1] = arg[2]
  /\ arg[1].op = "HPIdata.Change" /\ arg[1].dt # arg[1].dtEnd
  /\ ret[1].kind = "ok" /\ ret[2].kind = "ok"

(***************************************************************************)
(* HPIdata.Save: the text of the CSV file, as its header and its lines.    *)
(***************************************************************************)
\* sort.Strings on the keys the machines use.
KeyOrder == <<"A", "B">>
SortedKeys(K) == SelectSeq(KeyOrder, LAMBDA k : k \in K)

\* The lines Save writes for series v.
LinesOf(v, hasCode) ==
  [j \in 1..Len(v.dates) |->
     IF hasCode
       THEN [quoted |-> TRUE, geo |-> v.geoName, code |-> v.geoCode, date |-> v.dates[j],
             index |-> v.indx[j]]
       ELSE [quoted |-> FALSE, geo |-> v.geoName, code |-> "", date |-> v.dates[j],
             index |-> v.indx[j]]]

RECURSIVE LinesFrom(_, _, _)
LinesFrom(hd, geos, hasCode) ==
  IF geos = <<>> THEN <<>>
  ELSE LinesOf(hd.series[Head(geos)], hasCode) \o LinesFrom(hd, Tail(geos), hasCode)

\* Save: the keys sorted; the header chosen by the first series' geoCode.
Save(hd) ==
  LET geos == SortedKeys(DOMAIN hd.series)
  IN IF geos = <<>>
       THEN [r |-> Panic("index out of range"), header |-> "", lines |-> <<>>]
     ELSE IF \E k \in DOMAIN hd.series : Len(hd.series[k].indx) < Len(hd.series[k].dates)
       THEN [r |-> Panic("index out of range"), header |-> "", lines |-> <<>>]
     ELSE LET hasCode == hd.series[geos[1]].geoCode # ""
          IN [r |-> Ok(0),
              header |-> IF hasCode THEN "geo,code,date,index" ELSE "geo,date,index",
              lines |-> LinesFrom(hd, geos, hasCode)]

(***************************************************************************)
(* The save machine: a dataset is loaded and then saved.                   *)
(***************************************************************************)
SaveRows == [geoCode : {"A", "B"}, year : {2019}, qtr : {4}, index : {1, 2}]
RetSave(op, sv) ==
  [op |-> op, kind |-> sv.r.kind, val |-> sv.r.val, msg |-> sv.r.msg, header |-> sv.header,
   lines |-> sv.lines]

InitSave ==
  /\ h = NoSeries
  /\ c = NoSeries
  /\ heap = EmptyHeap
  /\ made = NotMade
  /\ hdata = NoData
  /\ arg = NoLevelArg
  /\ ret = RetSave("", [r |-> Ok(0), header |-> "", lines |-> <<>>])

DoSaveLoad(header, rows) ==
  /\ ret.op = ""
  /\ hdata' = LoadData(header, rows)
  /\ ret' = RetSave("Load", [r |-> Ok(0), header |-> "", lines |-> <<>>])
  /\ arg' = [NoLevelArg EXCEPT !.header = header]
  /\ UNCHANGED <<h, c, heap, made>>

DoSave ==
  /\ ret.op = "Load"
  /\ ret' = RetSave("Save", Save(hdata))
  /\ UNCHANGED <<h, c, heap, made, hdata, arg>>

NextSave ==
  \/ ret.op = "" /\ \E header \in Headers, rows \in SeqsUpTo(SaveRows, MaxLevelRows) \ {<<>>} :
                      DoSaveLoad(header, rows)
  \/ DoSave

SpecSave == InitSave /\ [][NextSave]_vars

\* The pairs of the dataset, the keys sorted and each series in its own order.
RECURSIVE StoredPairs(_, _)
StoredPairs(hd, geos) ==
  IF geos = <<>> THEN <<>>
  ELSE LET v == hd.series[Head(geos)]
       IN [j \in 1..Len(v.dates) |-> [geo |-> v.geoName, date |-> v.dates[j], index |-> v.indx[j]]]
            \o StoredPairs(hd, Tail(geos))
DistinctCodes == \E k \in DOMAIN hdata.series : hdata.series[k].geoCode # hdata.series[k].geoName

\* C27: Save of a loaded dataset of one of the seven classes writes the header geo,code,date,index when
\* the series carry a code distinct from their name, which only metro data
\* does, and geo,date,index when they do not; then one line for each stored
\* pair, the keys sorted and the dates of a key in stored order.
C27_SaveHeaderAndLines ==
  (ret.op = "Save" /\ hdata.geoLevel \in GeoLevels) =>
    /\ ret.kind = "ok"
    /\ ret.header = (IF DistinctCodes THEN "geo,code,date,index" ELSE "geo,date,index")
    /\ ret.header = "geo,code,date,index" => hdata.geoLevel = "metro"
    /\ [j \in 1..Len(ret.lines) |->
          [geo |-> ret.lines[j].geo, date |-> ret.lines[j].date, index |-> ret.lines[j].index]]
         = StoredPairs(hdata, SortedKeys(DOMAIN hdata.series))

(***************************************************************************)
(* Best of src/fhfa.go, over HPIdata.HPI.                                  *)
(***************************************************************************)
\* HPIdata.HPI: the series under geo, then its HPI; HPIgeo.HPI and
\* HPIgeo.DateIndex are the code of HPIseries.Index and HPIseries.DateIndex.
HPIdataHPI(hd, geo, dt) ==
  IF geo \in DOMAIN hd.series
    THEN Index(hd.series[geo].dates, hd.series[geo].indx, dt)
    ELSE Err("series not found")

\* The loop of Best from pair j on.
RECURSIVE BestHPIFrom(_, _, _, _)
BestHPIFrom(dt, keys, hpis, j) ==
  IF j > Len(hpis)
    THEN [r |-> Err("geo not found in Best"), geoLevel |-> "", lookups |-> j - 1]
    ELSE LET r == HPIdataHPI(hpis[j], keys[j], dt)
         IN IF r.kind = "ok"
              THEN [r |-> r, geoLevel |-> keys[j], lookups |-> j]
              ELSE IF r.kind = "panic"
                THEN [r |-> r, geoLevel |-> "", lookups |-> j]
                ELSE BestHPIFrom(dt, keys, hpis, j + 1)

BestHPI(dt, keys, hpis) ==
  IF Len(keys) # Len(hpis) \/ Len(hpis) = 0
    THEN [r |-> Err("invalid series"), geoLevel |-> "", lookups |-> 0]
    ELSE BestHPIFrom(dt, keys, hpis, 1)

DoBestHPI ==
  /\ ret.op = ""
  /\ ret' = RetBest("BestHPI", BestHPI(arg.dt, arg.keys, arg.hpis))
  /\ UNCHANGED <<h, c, heap, made, hdata, arg>>

NextBestHPI == DoBestHPI

SpecBestHPI == InitBest /\ [][NextBestHPI]_vars

\* The pairs whose HPI lookup succeeds.
HPIHits == {i \in 1..Len(arg.hpis) : HPIdataHPI(arg.hpis[i], arg.keys[i], arg.dt).kind = "ok"}

\* C28: the second result of Best in src/fhfa.go is the geoLevel of the
\* first dataset whose lookup succeeds, not the key it was looked up with.
C28_BestReturnsLevel ==
  (ret.op = "BestHPI" /\ ret.kind = "ok") =>
    \E j \in HPIHits :
      /\ \A i \in HPIHits : j <= i
      /\ ret.geoLevel = arg.hpis[j].geoLevel

====
